---------------------------- MODULE Spec2Model ----------------------------
(***************************************************************************)
(* Model of the Provenance command line interface                          *)
(* (src/client_cli/provenance-cli.py): the Session navigation state        *)
(* machine of ProvenanceShell, its command handlers, and the argument      *)
(* validator of the 'jobs' command.                                        *)
(*                                                                         *)
(* Python values are modelled as follows.  None is the string NONE.  A     *)
(* list is a sequence.  A dict (an OrderedDict, or a JSON object) is a     *)
(* sequence of [k, v] records in insertion order with unique keys.  A      *)
(* command line is the list of its whitespace-separated tokens.            *)
(***************************************************************************)
EXTENDS Integers, Sequences, FiniteSets, TLC

VARIABLES
    schema,     \* ProvenanceShell.lustre_schema, fetched once at startup
    session,    \* ProvenanceShell.session, the Session object
    prompt,     \* ProvenanceShell.prompt, as the list of its pieces
    phase,      \* the process: "loop" reading commands, or how it ended
    last,       \* record of the last command the loop dispatched
    argv,       \* validator harness: the token stream typed so far
    argres      \* validator harness: _pars_jobs_args of argv

vars == <<schema, session, prompt, phase, last, argv, argres>>

NONE == "None"

-----------------------------------------------------------------------------
(* Bounds of the model.                                                    *)

\* Longest argument list given to select, show, back and help.
MaxArgs == 3
\* Longest token stream given to the jobs command inside the shell.
MaxJobsArgs == 2
\* Longest token stream given to the validator harness.
MaxTokens == 6

-----------------------------------------------------------------------------
(* Python dict helpers.                                                    *)

DictKeys(d) == [i \in DOMAIN d |-> d[i].k]

DictHas(d, key) == \E i \in DOMAIN d : d[i].k = key

\* dict.get(key, None)
DictGet(d, key) ==
    IF DictHas(d, key)
    THEN d[CHOOSE i \in DOMAIN d : d[i].k = key].v
    ELSE NONE

\* dict.update({key: value}): an existing key keeps its position.
DictUpdate(d, key, value) ==
    IF DictHas(d, key)
    THEN [i \in DOMAIN d |-> IF d[i].k = key THEN [k |-> key, v |-> value] ELSE d[i]]
    ELSE Append(d, [k |-> key, v |-> value])

\* dict.pop(key) of a key that is present.
DictPop(d, key) == SelectSeq(d, LAMBDA e : e.k # key)

\* x in list
InList(x, list) == \E i \in DOMAIN list : list[i] = x

\* Python truthiness of a str-or-None value.
Truthy(v) == v # NONE /\ v # ""

-----------------------------------------------------------------------------
(* The schemas the API server may return for /schema.                      *)

Entry(key, value) == [k |-> key, v |-> value]

\* Two disjoint catalogs.
PlainSchema ==
    << Entry("mds", << Entry("s1", <<"t1", "t2">>) >>),
       Entry("oss", << Entry("s2", <<"t3", "t1">>), Entry("s3", <<"t2">>) >>) >>

\* Catalogs that overlap: s2 is in both, s2 is also a target of s1, and s3
\* has no target.
OverlapSchema ==
    << Entry("oss", << Entry("s2", <<"t3", "t1">>), Entry("s3", << >>) >>),
       Entry("mds", << Entry("s1", <<"t1", "s2">>), Entry("s2", <<"t2">>) >>) >>

Schemas == {PlainSchema, OverlapSchema}

\* Names an operator may type after select.
Names == {"s1", "s2", "s3", "t1", "zz"}

Keywords == {"server", "target", "jobs"}

-----------------------------------------------------------------------------
(* class Session                                                           *)

\* Session.__init__
NewSession ==
    [mode |-> "ROOT", serverType |-> NONE, serverName |-> NONE,
     targetName |-> NONE, targetList |-> << >>]

\* Session.updateServerMode
updateServerMode(s, stype, sname, targetlist) ==
    [s EXCEPT !.mode = "SERVER", !.serverType = stype, !.serverName = sname,
              !.targetName = NONE, !.targetList = targetlist]

\* Session.updateTargetMode
updateTargetMode(s, target) ==
    [s EXCEPT !.mode = "TARGET", !.targetName = target]

\* Faulty variant of updateJobsMode: the selected target is not cleared.
updateJobsMode_keeps_target(s) ==
    [s EXCEPT !.mode = "JOBS", !.serverType = NONE, !.serverName = NONE,
              !.targetList = << >>]

\* Session.updateJobsMode
updateJobsMode(s) ==
    [s EXCEPT !.mode = "JOBS", !.serverType = NONE, !.serverName = NONE,
              !.targetName = NONE, !.targetList = << >>]

\* Session.setToRoot
setToRoot(s) ==
    [s EXCEPT !.mode = "ROOT", !.serverType = NONE, !.serverName = NONE,
              !.targetName = NONE, !.targetList = << >>]

\* Faulty variant of PromptOf: the target is not shown.
PromptOf_server_only(s) ==
    <<"Provenance">>
    \o (CASE s.mode = "JOBS"   -> <<" [", "jobs", "]">>
          [] s.mode = "SERVER" -> <<" [", s.serverName, "]">>
          [] s.mode = "TARGET" -> <<" [", s.serverName, "]">>
          [] OTHER             -> << >>)
    \o <<"> ">>

\* ProvenanceShell._update_prompt, with the colour codes left out
PromptOf(s) ==
    <<"Provenance">>
    \o (CASE s.mode = "JOBS"   -> <<" [", "jobs", "]">>
          [] s.mode = "SERVER" -> <<" [", s.serverName, "]">>
          [] s.mode = "TARGET" -> <<" [", s.serverName, "]->", "[", s.targetName, "]">>
          [] OTHER             -> << >>)
    \o <<"> ">>

-----------------------------------------------------------------------------
(* The record of a dispatched command.                                     *)

\* cmd: the verb; err: the message _error printed ("" when none);
\* name: the server or target name a select was about; reqs: the API
\* requests the command issued; out: what it printed or paginated;
\* parse: what the jobs validator returned; prev: the session before it;
\* line: the tokens typed after jobinfo or jobscript, and the files-flag
\* tokens typed after jobs; reply: what the API server answered to the
\* command's request.
NoParse == [status |-> "none", error |-> << >>, map |-> << >>]

\* The answer of the API server to one GET request: how the request ended
\* and, for a job-detail record, the sections the record holds.
Reply(status, sections) == [status |-> status, sections |-> sections]

NoReply == Reply(NONE, {})

Record(cmd, err, name, reqs, out, parse, prev) ==
    [cmd |-> cmd, err |-> err, name |-> name, reqs |-> reqs, out |-> out,
     parse |-> parse, prev |-> prev, line |-> << >>, reply |-> NoReply,
     pager |-> "none"]

\* The record of a command that may have called the API.
Answered(rec, line, reply) ==
    [rec EXCEPT !.line = line,
                !.reply = IF rec.reqs = << >> THEN NoReply ELSE reply]

-----------------------------------------------------------------------------
(* do_select                                                               *)

\* The result of a handler step on the session: the new session, the
\* error printed, and whether the handler reached its _update_prompt call.
Outcome(s, err, prompted) == [session |-> s, err |-> err, prompted |-> prompted]

\* Faulty variant of set_server: the object catalog is looked up first.
set_server_oss_first(s, sch, server_name) ==
    IF InList(server_name, DictKeys(DictGet(sch, "oss")))
    THEN Outcome(updateServerMode(s, "oss", server_name,
                     DictGet(DictGet(sch, "oss"), server_name)), "", TRUE)
    ELSE IF InList(server_name, DictKeys(DictGet(sch, "mds")))
    THEN Outcome(updateServerMode(s, "mds", server_name,
                     DictGet(DictGet(sch, "mds"), server_name)), "", TRUE)
    ELSE Outcome(s, "is not a correct server name", TRUE)

\* Faulty variant of set_server: an unknown name resets the session.
set_server_error_resets(s, sch, server_name) ==
    IF InList(server_name, DictKeys(DictGet(sch, "mds")))
    THEN Outcome(updateServerMode(s, "mds", server_name,
                     DictGet(DictGet(sch, "mds"), server_name)), "", TRUE)
    ELSE IF InList(server_name, DictKeys(DictGet(sch, "oss")))
    THEN Outcome(updateServerMode(s, "oss", server_name,
                     DictGet(DictGet(sch, "oss"), server_name)), "", TRUE)
    ELSE Outcome(setToRoot(s), "is not a correct server name", TRUE)

\* do_select.set_server
set_server(s, sch, server_name) ==
    IF InList(server_name, DictKeys(DictGet(sch, "mds")))
    THEN Outcome(updateServerMode(s, "mds", server_name,
                     DictGet(DictGet(sch, "mds"), server_name)), "", TRUE)
    ELSE IF InList(server_name, DictKeys(DictGet(sch, "oss")))
    THEN Outcome(updateServerMode(s, "oss", server_name,
                     DictGet(DictGet(sch, "oss"), server_name)), "", TRUE)
    ELSE Outcome(s, "is not a correct server name", TRUE)

\* Faulty variant of set_target: only the ROOT mode counts as "no server".
set_target_root_only(s, target_name) ==
    IF s.mode = "ROOT"
    THEN Outcome(s, "No Server has been selected for target", TRUE)
    ELSE IF ~InList(target_name, s.targetList)
    THEN Outcome(s, "is not a MDT target of server", TRUE)
    ELSE Outcome(updateTargetMode(s, target_name), "", TRUE)

\* Faulty variant of set_target: an unknown target drops the selected one.
set_target_unknown_clears(s, target_name) ==
    IF s.mode \notin {"SERVER", "TARGET"}
    THEN Outcome(s, "No Server has been selected for target", TRUE)
    ELSE IF ~InList(target_name, s.targetList)
    THEN Outcome(updateServerMode(s, s.serverType, s.serverName, s.targetList),
                 "is not a MDT target of server", TRUE)
    ELSE Outcome(updateTargetMode(s, target_name), "", TRUE)

\* do_select.set_target
set_target(s, target_name) ==
    IF s.mode \notin {"SERVER", "TARGET"}
    THEN Outcome(s, "No Server has been selected for target", TRUE)
    ELSE IF ~InList(target_name, s.targetList)
    THEN Outcome(s, "is not a MDT target of server", TRUE)
    ELSE Outcome(updateTargetMode(s, target_name), "", TRUE)

\* Faulty variant of select: the bare form looks at the targets first.
select_targets_first(s, sch, args) ==
    IF Len(args) < 1
    THEN Outcome(s, "'select' command requires at least one argument", FALSE)
    ELSE IF Len(args) > 2
    THEN Outcome(s, "Too many arguments for 'select'", FALSE)
    ELSE IF Len(args) = 1 /\ args[1] \notin Keywords
    THEN IF InList(args[1], s.targetList)
         THEN set_target(s, args[1])
         ELSE IF \/ InList(args[1], DictKeys(DictGet(sch, "mds")))
                 \/ InList(args[1], DictKeys(DictGet(sch, "oss")))
         THEN set_server(s, sch, args[1])
         ELSE Outcome(s, "is not a server nor an available target", FALSE)
    ELSE IF args[1] = "server"
    THEN IF Len(args) = 1
         THEN Outcome(s, "'select server' has not enought arguments", FALSE)
         ELSE set_server(s, sch, args[2])
    ELSE IF args[1] = "target"
    THEN IF Len(args) = 1
         THEN Outcome(s, "'select target' has not enought arguments", FALSE)
         ELSE set_target(s, args[2])
    ELSE IF args[1] = "jobs"
    THEN IF Len(args) > 1
         THEN Outcome(s, "'select jobs' has no arguments", FALSE)
         ELSE Outcome(updateJobsMode(s), "", TRUE)
    ELSE Outcome(s, "is not a valid option for 'select' command", FALSE)

\* do_select, the main section
select(s, sch, args) ==
    IF Len(args) < 1
    THEN Outcome(s, "'select' command requires at least one argument", FALSE)
    ELSE IF Len(args) > 2
    THEN Outcome(s, "Too many arguments for 'select'", FALSE)
    ELSE IF Len(args) = 1 /\ args[1] \notin Keywords
    THEN IF \/ InList(args[1], DictKeys(DictGet(sch, "mds")))
            \/ InList(args[1], DictKeys(DictGet(sch, "oss")))
         THEN set_server(s, sch, args[1])
         ELSE IF InList(args[1], s.targetList)
         THEN set_target(s, args[1])
         ELSE Outcome(s, "is not a server nor an available target", FALSE)
    ELSE IF args[1] = "server"
    THEN IF Len(args) = 1
         THEN Outcome(s, "'select server' has not enought arguments", FALSE)
         ELSE set_server(s, sch, args[2])
    ELSE IF args[1] = "target"
    THEN IF Len(args) = 1
         THEN Outcome(s, "'select target' has not enought arguments", FALSE)
         ELSE set_target(s, args[2])
    ELSE IF args[1] = "jobs"
    THEN IF Len(args) > 1
         THEN Outcome(s, "'select jobs' has no arguments", FALSE)
         ELSE Outcome(updateJobsMode(s), "", TRUE)
    ELSE Outcome(s, "is not a valid option for 'select' command", FALSE)

\* The name a select command line is about, for the record.
SelectName(args) ==
    IF Len(args) = 0 THEN NONE ELSE args[Len(args)]

\* The form of a select command line, for the record.
SelectForm(args) ==
    IF Len(args) = 2 /\ args[1] = "server" THEN "select server"
    ELSE IF Len(args) = 2 /\ args[1] = "target" THEN "select target"
    ELSE IF Len(args) = 1 /\ args[1] = "jobs" THEN "select jobs"
    ELSE IF Len(args) = 1 /\ args[1] \notin Keywords THEN "select bare"
    ELSE "select malformed"

ArgLists(words, n) == UNION {[1..m -> words] : m \in 0..n}

DoSelect(args) ==
    /\ phase = "loop"
    /\ \E r \in {select(session, schema, args)} :
       /\ session' = r.session
       /\ prompt' = IF r.prompted THEN PromptOf(r.session) ELSE prompt
       /\ last' = Record(SelectForm(args), r.err, SelectName(args), << >>, << >>,
                         NoParse, session)
       /\ UNCHANGED <<schema, phase, argv, argres>>

-----------------------------------------------------------------------------
(* do_back                                                                 *)

\* Faulty variant of back: every mode returns to the root.
back_to_root(s) == setToRoot(s)

\* Faulty variant of back: the target list is lost on the way up.
back_drops_targets(s) ==
    IF s.mode = "TARGET"
    THEN updateServerMode(s, s.serverType, s.serverName, << >>)
    ELSE setToRoot(s)

\* do_back, on the session
back(s) ==
    IF s.mode = "TARGET"
    THEN updateServerMode(s, s.serverType, s.serverName, s.targetList)
    ELSE setToRoot(s)

DoBack ==
    /\ phase = "loop"
    /\ session' = back(session)
    /\ prompt' = PromptOf(session')
    /\ last' = Record("back", "", NONE, << >>, << >>, NoParse, session)
    /\ UNCHANGED <<schema, phase, argv, argres>>

-----------------------------------------------------------------------------
(* _pars_jobs_args, the validator of the jobs command                      *)

\* valid_ops
valid_ops ==
    << Entry("jobid", <<"-j", "--jobid">>), Entry("taskid", <<"-t", "--taskid">>),
       Entry("cluster", <<"-c", "--cluster">>), Entry("js", <<"-js", "--job-status">>),
       Entry("days", <<"-d", "--days">>), Entry("user", <<"-u", "--username">>),
       Entry("sort", <<"-s", "--sort">>) >>

\* valid_status
valid_status ==
    << Entry("RUNNING", <<"r", "R">>), Entry("FINISHED", <<"f", "F">>) >>

\* The spellings of the files flag.
files_opts == <<"-f", "--files">>

\* The tokens of the model that are not flag-like: str.startswith('-') is
\* false for exactly these.
ValueTokens ==
    {"r", "f", "F", "x", "7", "1", "0", "1.5", "genius", "quanah", "uge", "123", "4"}

startswith_dash(tok) == tok \notin ValueTokens

\* int(value): the decimal literals of the model and their values; int()
\* raises ValueError on every other token.
IntLiterals == <<Entry("7", 7), Entry("1", 1), Entry("0", 0)>>

int_raises(tok) == ~DictHas(IntLiterals, tok)

int(tok) == DictGet(IntLiterals, tok)

\* The three ways the validator ends: it returns arg_map ("ok"), it
\* returns {"error": msg} ("error"), or an exception leaves it ("raise").
Parsed(status, error, map) == [status |-> status, error |-> error, map |-> map]

\* list.pop(inx), inx counted from 1
ListPop(list, i) == [j \in 1..(Len(list) - 1) |-> IF j < i THEN list[j] ELSE list[j + 1]]

\* for inx, opt in enumerate(arg_list): if opt in ['-f', '--files']: pop.
\* The list iterator goes on at the next index of the list as it is by then.
RECURSIVE files_scan(_, _, _)
files_scan(arg_list, i, arg_map) ==
    IF i > Len(arg_list)
    THEN [arg_list |-> arg_list, arg_map |-> arg_map]
    ELSE IF InList(arg_list[i], files_opts)
    THEN files_scan(ListPop(arg_list, i), i + 1, DictUpdate(arg_map, "files", "y"))
    ELSE files_scan(arg_list, i + 1, arg_map)

\* The key of the first valid_ops entry that lists option, or NONE.
RECURSIVE find_option(_, _)
find_option(option, j) ==
    IF j > Len(valid_ops) THEN NONE
    ELSE IF InList(option, valid_ops[j].v) THEN valid_ops[j].k
    ELSE find_option(option, j + 1)

\* Faulty variant of pair_walk: a repeated flag keeps its first value.
RECURSIVE pair_walk_keeps_first(_, _, _)
pair_walk_keeps_first(arg_list, i, arg_map) ==
    IF i > Len(arg_list)
    THEN Parsed("ok", << >>, arg_map)
    ELSE LET option == arg_list[i] IN
         IF i % 2 = 1
         THEN IF ~startswith_dash(option)
              THEN Parsed("error", <<"is not a valid option for 'list'", option>>, << >>)
              ELSE IF find_option(option, 1) = NONE
              THEN Parsed("error", <<"is not a valid option for 'list'", option>>, << >>)
              ELSE IF DictHas(arg_map, find_option(option, 1))
              THEN pair_walk_keeps_first(arg_list, i + 1, arg_map)
              ELSE pair_walk_keeps_first(arg_list, i + 1,
                             DictUpdate(arg_map, find_option(option, 1), NONE))
         ELSE LET last_key == DictKeys(arg_map)[Len(arg_map)] IN
              IF startswith_dash(option)
              THEN Parsed("error", <<"is not a valid value for", option, arg_list[i - 1]>>, << >>)
              ELSE IF DictGet(arg_map, last_key) # NONE
              THEN pair_walk_keeps_first(arg_list, i + 1, arg_map)
              ELSE pair_walk_keeps_first(arg_list, i + 1, DictUpdate(arg_map, last_key, option))

\* for inx, _ in enumerate(arg_list): the flag/value pair walk.  i is
\* inx + 1, so Python's even indices are the odd i.
RECURSIVE pair_walk(_, _, _)
pair_walk(arg_list, i, arg_map) ==
    IF i > Len(arg_list)
    THEN Parsed("ok", << >>, arg_map)
    ELSE LET option == arg_list[i] IN
         IF i % 2 = 1
         THEN IF ~startswith_dash(option)
              THEN Parsed("error", <<"is not a valid option for 'list'", option>>, << >>)
              ELSE IF find_option(option, 1) = NONE
              THEN Parsed("error", <<"is not a valid option for 'list'", option>>, << >>)
              ELSE pair_walk(arg_list, i + 1,
                             DictUpdate(arg_map, find_option(option, 1), NONE))
         ELSE LET last_key == DictKeys(arg_map)[Len(arg_map)] IN
              IF startswith_dash(option)
              THEN Parsed("error", <<"is not a valid value for", option, arg_list[i - 1]>>, << >>)
              ELSE pair_walk(arg_list, i + 1, DictUpdate(arg_map, last_key, option))

\* The status of the first valid_status entry that lists value, or NONE.
RECURSIVE find_status(_, _)
find_status(value, j) ==
    IF j > Len(valid_status) THEN NONE
    ELSE IF InList(value, valid_status[j].v) THEN valid_status[j].k
    ELSE find_status(value, j + 1)

\* for key, value in arg_map.items(): the per-item verification.
RECURSIVE verify_items(_, _)
verify_items(arg_map, i) ==
    IF i > Len(arg_map)
    THEN Parsed("ok", << >>, arg_map)
    ELSE LET key == arg_map[i].k
             value == arg_map[i].v
         IN
         IF ~Truthy(value)
         THEN Parsed("error", <<"option has no value", key>>, << >>)
         ELSE IF key = "js"
         THEN IF find_status(value, 1) = NONE
              THEN Parsed("error", <<"is not valid argument for option", value, key>>, << >>)
              ELSE verify_items(DictUpdate(arg_map, "js", find_status(value, 1)), i + 1)
         ELSE IF key = "days"
         THEN IF int_raises(value)
              THEN Parsed("raise", <<"ValueError", value>>, << >>)
              ELSE IF int(value) < 1
              THEN Parsed("error", <<"The Number of days cannot be less than '1'">>, << >>)
              ELSE verify_items(arg_map, i + 1)
         ELSE verify_items(arg_map, i + 1)

\* Faulty variant of cross_checks: the taskid rule is missing.
cross_checks_no_taskid_rule(arg_map) ==
    IF DictGet(arg_map, "js") = "FINISHED" /\ ~Truthy(DictGet(arg_map, "days"))
    THEN Parsed("error", <<"For 'FINISHED' jobs, [-d | --days] option must be defined">>, << >>)
    ELSE IF Truthy(DictGet(arg_map, "jobid")) /\ ~Truthy(DictGet(arg_map, "cluster"))
    THEN Parsed("error", <<"The cluster name must be defined by [-c | --cluster]">>, << >>)
    ELSE Parsed("ok", << >>, arg_map)

\* The three cross-field rules that end the validator.
cross_checks(arg_map) ==
    IF DictGet(arg_map, "js") = "FINISHED" /\ ~Truthy(DictGet(arg_map, "days"))
    THEN Parsed("error", <<"For 'FINISHED' jobs, [-d | --days] option must be defined">>, << >>)
    ELSE IF Truthy(DictGet(arg_map, "jobid")) /\ ~Truthy(DictGet(arg_map, "cluster"))
    THEN Parsed("error", <<"The cluster name must be defined by [-c | --cluster]">>, << >>)
    ELSE IF Truthy(DictGet(arg_map, "taskid")) /\ ~Truthy(DictGet(arg_map, "jobid"))
    THEN Parsed("error", <<"jobid must be selected by [-j | --jobid] for the given 'taskid'">>, << >>)
    ELSE Parsed("ok", << >>, arg_map)

\* ProvenanceShell._pars_jobs_args
pars_jobs_args(arg_list) ==
    LET scanned == files_scan(arg_list, 1, << >>)
        walked == pair_walk(scanned.arg_list, 1, scanned.arg_map)
        verified == IF walked.status = "ok" THEN verify_items(walked.map, 1) ELSE walked
    IN  IF verified.status = "ok" THEN cross_checks(verified.map) ELSE verified

-----------------------------------------------------------------------------
(* class RESTful_API                                                       *)

\* What the API server does with one GET request: a body whose 'result'
\* holds rows, is an empty array or is null, an HTTP error status, or no
\* connection at all.
ApiOutcomes == {"rows", "empty", "null", "http404", "http500", "urlerror"}

\* The sections a job-detail record may hold besides the job's own fields.
Sections == {"mds_data", "oss_data", "fileop_data"}

\* The answers to a job-detail query.
DetailReplies ==
    {Reply(o, {}) : o \in ApiOutcomes \ {"rows"}}
    \cup {Reply("rows", S) : S \in SUBSET Sections}

\* hashlib.md5(...).hexdigest(), kept as the tagged pre-hash string
md5(obj_id) == "md5:" \o obj_id

\* ''.join(filter(None, fields))
RECURSIVE join_nonempty(_)
join_nonempty(fields) ==
    IF fields = << >> THEN ""
    ELSE (IF Truthy(Head(fields)) THEN Head(fields) ELSE "") \o join_nonempty(Tail(fields))

\* Faulty variant of uniqID: the cluster is joined before the scheduler.
uniqID_cluster_first(cluster, sched, jobid, taskid) ==
    md5(join_nonempty(<<cluster, sched, jobid, taskid>>))

\* RESTful_API._uniqID
uniqID(cluster, sched, jobid, taskid) ==
    md5(join_nonempty(<<sched, cluster, jobid, taskid>>))

\* kwargs.pop(key) if kwargs.get(key, None) else None: the dict after it
PopIfSet(kwargs, key) ==
    IF Truthy(DictGet(kwargs, key)) THEN DictPop(kwargs, key) ELSE kwargs

\* RESTful_API._gen_api_url: the request as its path and its key=value list
gen_api_url(url_cmd, kwargs) ==
    IF kwargs = << >>
    THEN [path |-> "/provenance" \o url_cmd, params |-> << >>]
    ELSE LET jobid == DictGet(kwargs, "jobid")
             taskid == DictGet(kwargs, "taskid")
             cluster == DictGet(kwargs, "cluster")
             sched == DictGet(kwargs, "sched")
             rest == PopIfSet(PopIfSet(PopIfSet(PopIfSet(kwargs,
                         "jobid"), "taskid"), "cluster"), "sched")
         IN  [path |-> "/provenance" \o url_cmd,
              params |-> IF Truthy(jobid)
                         THEN DictUpdate(rest, "uid", uniqID(cluster, sched, jobid, taskid))
                         ELSE rest]

\* RESTful_API.get: the request sent, what is returned, and whether the
\* process exits instead of returning.  An HTTPError is caught and get
\* returns None, whatever its code; a URLError ends in sys.exit(1).
api_get(url_cmd, kwargs, outcome) ==
    [req  |-> gen_api_url(url_cmd, kwargs),
     resp |-> CASE outcome = "rows"  -> "rows"
                [] outcome = "empty" -> "empty"
                [] outcome = "null"  -> "null"
                [] OTHER             -> NONE,
     exit |-> outcome = "urlerror"]

NoResult == "** No Result Found **"

\* Faulty variant of table_or_sentinel: an empty result array is tabulated.
table_or_sentinel_tabulates_empty(resp, table) ==
    IF resp \in {"rows", "empty"} THEN table ELSE NoResult

\* The end of every get_..._table: a table when the result is not empty.
table_or_sentinel(resp, table) ==
    IF resp = "rows" THEN table ELSE NoResult

\* What became of a call of the API: the requests sent, the text returned
\* to the handler, and whether the process exited in the call.
Called(g, text) == [reqs |-> <<g.req>>, out |-> text, exit |-> g.exit]

\* Faulty variant of get_oss_jobs_table: the target is left out of the path.
get_oss_jobs_table_no_target(server, target, kwargs, outcome) ==
    LET g == api_get("/oss/" \o server, kwargs, outcome)
    IN  Called(g, table_or_sentinel(g.resp, "oss jobs table"))

\* RESTful_API.get_oss_jobs_table
get_oss_jobs_table(server, target, kwargs, outcome) ==
    LET g == api_get("/oss/" \o server \o (IF Truthy(target) THEN "/" \o target ELSE ""),
                     kwargs, outcome)
    IN  Called(g, table_or_sentinel(g.resp, "oss jobs table"))

\* RESTful_API.get_mds_jobs_table
get_mds_jobs_table(server, target, kwargs, outcome) ==
    LET g == api_get("/mds/" \o server \o (IF Truthy(target) THEN "/" \o target ELSE ""),
                     kwargs, outcome)
    IN  Called(g, table_or_sentinel(g.resp, "mds jobs table"))

\* RESTful_API.get_mds_files_Table
get_mds_files_Table(server, target, kwargs, outcome) ==
    LET g == api_get("/mds/" \o server \o (IF Truthy(target) THEN "/" \o target ELSE ""),
                     kwargs, outcome)
    IN  Called(g, table_or_sentinel(g.resp, "mds files table"))

\* RESTful_API.get_all_jobs
get_all_jobs(kwargs, outcome) ==
    LET g == api_get("/jobinfo", kwargs, outcome)
    IN  Called(g, table_or_sentinel(g.resp, "all jobs table"))

-----------------------------------------------------------------------------
(* do_jobs                                                                 *)

\* What a handler that may call the API did: the error it printed, the
\* requests it sent, the text it paginated, the validator's answer, and
\* the phase of the process after it.
Handled(err, reqs, out, parse, ph) ==
    [err |-> err, reqs |-> reqs, out |-> out, parse |-> parse, phase |-> ph,
     paged |-> FALSE]

\* The handler after a call of the API: _paginate_output of the text,
\* unless the call ended the process.
Paginated(c, parse) ==
    IF c.exit
    THEN Handled("", c.reqs, << >>, parse, "exit1")
    ELSE [Handled("", c.reqs, <<c.out>>, parse, "loop") EXCEPT !.paged = TRUE]

\* What the pager does with the text piped to it: it shows all of it, or
\* the operator quits it while the text is still being written.
PagerOutcomes == {"shown", "brokenpipe"}

\* Faulty variant of paginate_output: BrokenPipeError is not caught.
paginate_output_uncaught(output, pager) ==
    [written |-> output, raised |-> pager = "brokenpipe"]

\* ProvenanceShell._paginate_output: write, close and wait inside
\* try ... except BrokenPipeError: pass
paginate_output(output, pager) ==
    [written |-> output, raised |-> FALSE]

\* The pager outcomes a handled command can meet: none when it paginates
\* nothing.
PagerFor(r) == IF r.paged THEN PagerOutcomes ELSE {"none"}

\* The phase of the process after a handled command and its pager.
PhaseAfter(r, pager) ==
    IF r.paged /\ paginate_output(r.out, pager).raised THEN "crashed" ELSE r.phase

jobs(s, args, outcome) ==
    IF s.mode = "ROOT"
    THEN Handled("Please select a server, server/target/ or jobs", << >>, << >>,
                 NoParse, "loop")
    ELSE LET args_map == pars_jobs_args(args)
             has_files == DictHas(args_map.map, "files")
         IN
         IF args_map.status = "raise"
         THEN Handled("", << >>, << >>, args_map, "crashed")
         ELSE IF args_map.status = "error"
         THEN Handled(args_map.error[1], << >>, << >>, args_map, "loop")
         ELSE IF s.mode \in {"SERVER", "TARGET"}
         THEN IF s.serverType = "oss"
              THEN IF has_files
                   THEN Handled("Files can be shown only for MDT targets on MDS servers",
                                << >>, << >>, args_map, "loop")
                   ELSE Paginated(get_oss_jobs_table(s.serverName, s.targetName,
                                                     args_map.map, outcome), args_map)
              ELSE IF has_files
                   THEN IF s.mode # "TARGET"
                        THEN Handled("Please select a MDT target to list available file operations",
                                     << >>, << >>, args_map, "loop")
                        ELSE Paginated(get_mds_files_Table(s.serverName, s.targetName,
                                                           args_map.map, outcome), args_map)
                   ELSE Paginated(get_mds_jobs_table(s.serverName, s.targetName,
                                                     args_map.map, outcome), args_map)
         ELSE IF has_files
              THEN Handled("Files can be shown only for MDT targets on MDS servers",
                           << >>, << >>, args_map, "loop")
              ELSE Paginated(get_all_jobs(args_map.map, outcome), args_map)

\* Tokens an operator may type after jobs inside the shell.
JobsWords == {"-f", "-d", "-u", "7", "0", "x"}

\* Longer lines an operator may type after jobs inside the shell.
JobsLines ==
    { <<"-c", "genius">>,
      <<"-j", "123", "-c", "genius">>,
      <<"-c", "quanah", "-j", "4", "-t", "123">>,
      <<"-c", "genius", "-u", "x">>,
      <<"-u", "x", "-js", "f", "-d", "7">>,
      <<"--files", "-u", "x">>,
      <<"-f", "-d", "x">> }

DoJobs(args, outcome) ==
    /\ phase = "loop"
    /\ \E r \in {jobs(session, args, outcome)} : \E pager \in PagerFor(r) :
       /\ phase' = PhaseAfter(r, pager)
       /\ last' = [Answered(Record("jobs", r.err, NONE, r.reqs, r.out, r.parse, session),
                            SelectSeq(args, LAMBDA tok : InList(tok, files_opts)),
                            Reply(outcome, {}))
                   EXCEPT !.pager = pager]
       /\ UNCHANGED <<schema, session, prompt, argv, argres>>

-----------------------------------------------------------------------------
(* do_show                                                                 *)

\* Words an operator may type after show.
ShowWords == {"servers", "targets", "zz"}

show(s, sch, args) ==
    IF Len(args) > 1
    THEN Handled("Too many arguments for 'show'", << >>, << >>, NoParse, "loop")
    ELSE IF Len(args) < 1 \/ args[1] = "servers"
    THEN Handled("", << >>,
                 <<"MDS Servers:">> \o DictKeys(DictGet(sch, "mds"))
                 \o <<"OSS Servvers:">> \o DictKeys(DictGet(sch, "oss")),
                 NoParse, "loop")
    ELSE IF args[1] = "targets"
    THEN IF s.mode \notin {"SERVER", "TARGET"}
         THEN Handled("No server has been selected", << >>, << >>, NoParse, "loop")
         ELSE Handled("", << >>, <<"targets in", s.serverName>> \o s.targetList,
                      NoParse, "loop")
    ELSE Handled("is not a valid option for 'show' command", << >>, << >>,
                 NoParse, "loop")

DoShow(args) ==
    /\ phase = "loop"
    /\ \E r \in {show(session, schema, args)} :
       /\ last' = Record(IF args = <<"targets">> THEN "show targets" ELSE "show",
                         r.err, NONE, r.reqs, r.out, r.parse, session)
       /\ UNCHANGED <<schema, session, prompt, phase, argv, argres>>

-----------------------------------------------------------------------------
(* getopt.getopt, on whole tokens: with_arg are the option tokens that     *)
(* take the next token as their value, no_arg the option tokens that take  *)
(* none (the long options are declared without '=', so they take none and  *)
(* come back with the value "").  A token that does not start with '-'     *)
(* ends the options; any other token raises GetoptError.  Options typed    *)
(* as one token with their value, or as an abbreviation, are not among     *)
(* the tokens of the model.                                                *)

Getopt(status, opts, remain) == [status |-> status, opts |-> opts, remain |-> remain]

RECURSIVE getopt(_, _, _, _)
getopt(args, opts, with_arg, no_arg) ==
    IF args = << >> \/ ~startswith_dash(Head(args))
    THEN Getopt("ok", opts, args)
    ELSE IF Head(args) \in with_arg
    THEN IF Tail(args) = << >>
         THEN Getopt("GetoptError", << >>, << >>)
         ELSE getopt(Tail(Tail(args)), Append(opts, Entry(Head(args), args[2])),
                     with_arg, no_arg)
    ELSE IF Head(args) \in no_arg
    THEN getopt(Tail(args), Append(opts, Entry(Head(args), "")), with_arg, no_arg)
    ELSE Getopt("GetoptError", << >>, << >>)

\* The key of the first entry of table (key: its option spellings) that
\* lists opt, or NONE.
RECURSIVE find_key(_, _, _)
find_key(table, opt, j) ==
    IF j > Len(table) THEN NONE
    ELSE IF InList(opt, table[j].v) THEN table[j].k
    ELSE find_key(table, opt, j + 1)

-----------------------------------------------------------------------------
(* do_jobinfo                                                              *)

\* [f"--{flag}", f"-{flag[0]}"] for flag in flags_list
jobinfo_flags ==
    << Entry("oss", <<"--oss", "-o">>), Entry("mds", <<"--mds", "-m">>),
       Entry("files", <<"--files", "-f">>) >>

\* [f"--{key}", f"-{key[0]}"] for key in args_map.keys()
jobinfo_keys ==
    << Entry("cluster", <<"--cluster", "-c">>), Entry("sched", <<"--sched", "-s">>),
       Entry("jobid", <<"--jobid", "-j">>), Entry("taskid", <<"--taskid", "-t">>) >>

\* for opt, value in opts: collect the flags (do_jobinfo only; do_jobscript
\* has no flag table) and the values.  The result is the error printed (or
\* "") with the two maps.
Collected(err, args_map, filter_flags) ==
    [err |-> err, args_map |-> args_map, filter_flags |-> filter_flags]

RECURSIVE collect_opts(_, _, _, _, _, _)
collect_opts(opts, i, flags, keys, args_map, filter_flags) ==
    IF i > Len(opts)
    THEN Collected("", args_map, filter_flags)
    ELSE LET opt == opts[i].k
             value == opts[i].v
         IN
         IF find_key(flags, opt, 1) # NONE
         THEN collect_opts(opts, i + 1, flags, keys, args_map,
                           DictUpdate(filter_flags, find_key(flags, opt, 1), "True"))
         ELSE IF find_key(keys, opt, 1) # NONE
         THEN IF ~Truthy(value)
              THEN Collected("Please specify a value for option", args_map, filter_flags)
              ELSE collect_opts(opts, i + 1, flags, keys,
                                DictUpdate(args_map, find_key(keys, opt, 1), value),
                                filter_flags)
         ELSE collect_opts(opts, i + 1, flags, keys, args_map, filter_flags)

\* RESTful_API.get_job_detail.  kwargs are the filter flags; a section is
\* wanted when no flag was given or its own flag was.  data["mds_data"] and
\* data["oss_data"] are subscripted, so a wanted section that the record
\* does not hold raises KeyError; data.get("fileop_data", []) does not.
get_job_detail(cluster, sched, jobid, taskid, kwargs, reply) ==
    LET g == api_get("/jobinfo/" \o uniqID(cluster, sched, jobid, taskid), << >>,
                     reply.status)
        wanted(flag) == kwargs = << >> \/ Truthy(DictGet(kwargs, flag))
        holds(section) == section \in reply.sections
        text == "[JOB INFO]"
                \o (IF wanted("mds") /\ holds("mds_data") THEN "[MDS]" ELSE "")
                \o (IF wanted("oss") /\ holds("oss_data") THEN "[OSS]" ELSE "")
                \o (IF wanted("files") /\ holds("fileop_data") THEN "[Files OPs]" ELSE "")
    IN  [reqs  |-> <<g.req>>,
         out   |-> table_or_sentinel(g.resp, text),
         exit  |-> g.exit,
         raise |-> /\ g.resp = "rows"
                   /\ \/ wanted("mds") /\ ~holds("mds_data")
                      \/ wanted("oss") /\ ~holds("oss_data")]

\* Faulty variant of jobinfo_missing: the scheduler is not asked for.
jobinfo_missing_sched_optional(args_map) ==
    IF ~Truthy(DictGet(args_map, "cluster"))
    THEN "The Cluster name (-c, --cluster) has to be defined for 'jobinfo' command"
    ELSE IF ~Truthy(DictGet(args_map, "jobid"))
    THEN "The JobID (-j, --jobid) has to be defined for 'jobinfo' command"
    ELSE ""

\* do_jobinfo: the three mandatory values, tested in this order; the
\* message of the first that is missing, or "".
jobinfo_missing(args_map) ==
    IF ~Truthy(DictGet(args_map, "cluster"))
    THEN "The Cluster name (-c, --cluster) has to be defined for 'jobinfo' command"
    ELSE IF ~Truthy(DictGet(args_map, "sched"))
    THEN "The Scheduler type (-s, --sched) has to be defined for 'jobinfo' command"
    ELSE IF ~Truthy(DictGet(args_map, "jobid"))
    THEN "The JobID (-j, --jobid) has to be defined for 'jobinfo' command"
    ELSE ""

jobinfo(args, reply) ==
    LET g == getopt(args, << >>, {"-c", "-s", "-j", "-t"},
                    {"-o", "-m", "-f", "--cluster", "--sched", "--jobid", "--taskid",
                     "--oss", "--mds", "--files"})
        c == collect_opts(g.opts, 1, jobinfo_flags, jobinfo_keys,
                          << Entry("cluster", NONE), Entry("sched", NONE),
                             Entry("jobid", NONE), Entry("taskid", NONE) >>, << >>)
    IN
    IF g.status = "GetoptError"
    THEN Handled("GetoptError", << >>, << >>, NoParse, "loop")
    ELSE IF g.remain # << >>
    THEN Handled("is not a valid option", << >>, << >>, NoParse, "loop")
    ELSE IF c.err # ""
    THEN Handled(c.err, << >>, << >>, NoParse, "loop")
    ELSE IF jobinfo_missing(c.args_map) # ""
    THEN Handled(jobinfo_missing(c.args_map), << >>, << >>, NoParse, "loop")
    ELSE LET d == get_job_detail(DictGet(c.args_map, "cluster"), DictGet(c.args_map, "sched"),
                                 DictGet(c.args_map, "jobid"), DictGet(c.args_map, "taskid"),
                                 c.filter_flags, reply)
         IN  IF d.raise
             THEN Handled("", d.reqs, << >>, NoParse, "crashed")
             ELSE Paginated(d, NoParse)

\* Command lines an operator may type after jobinfo inside the shell.
JobinfoLines ==
    { << >>,
      <<"-c", "genius", "-s", "uge", "-j", "123">>,
      <<"-j", "123", "-t", "4", "-o", "-s", "uge", "-c", "genius">>,
      <<"-c", "quanah", "-s", "uge", "-j", "4", "-m">>,
      <<"-c", "genius", "-s", "uge", "-j", "123", "-f">>,
      <<"--cluster", "genius", "--jobid", "123">>,
      <<"--cluster", "genius", "-s", "uge", "--jobid", "123">>,
      <<"--cluster", "genius", "--sched", "uge", "--jobid", "123", "--taskid", "4">>,
      <<"-c", "genius", "-j", "123">>,
      <<"-s", "uge", "-j", "123">>,
      <<"-c", "genius", "-s", "uge">>,
      <<"-c", "genius", "123">>,
      <<"-c">>,
      <<"-x", "genius">> }

DoJobinfo(args, reply) ==
    /\ phase = "loop"
    /\ \E r \in {jobinfo(args, reply)} : \E pager \in PagerFor(r) :
       /\ phase' = PhaseAfter(r, pager)
       /\ last' = [Answered(Record("jobinfo", r.err, NONE, r.reqs, r.out, r.parse, session),
                            args, reply)
                   EXCEPT !.pager = pager]
       /\ UNCHANGED <<schema, session, prompt, argv, argres>>

-----------------------------------------------------------------------------
(* do_jobscript                                                            *)

jobscript_keys ==
    << Entry("cluster", <<"--cluster", "-c">>), Entry("jobid", <<"--jobid", "-j">>) >>

\* RESTful_API.get_jobscript
get_jobscript(cluster, jobid, outcome) ==
    LET g == api_get("/jobscript/" \o cluster \o "/" \o jobid, << >>, outcome)
    IN  Called(g, IF g.resp = "rows" THEN "job submission script"
                  ELSE "** The Job Submission Script was not found **")

jobscript(args, outcome) ==
    LET g == getopt(args, << >>, {"-c", "-j"}, {"--cluster", "--jobid"})
        c == collect_opts(g.opts, 1, << >>, jobscript_keys,
                          << Entry("cluster", NONE), Entry("jobid", NONE) >>, << >>)
    IN
    IF g.status = "GetoptError"
    THEN Handled("GetoptError", << >>, << >>, NoParse, "loop")
    ELSE IF g.remain # << >>
    THEN Handled("is not a valid option", << >>, << >>, NoParse, "loop")
    ELSE IF c.err # ""
    THEN Handled(c.err, << >>, << >>, NoParse, "loop")
    ELSE IF ~Truthy(DictGet(c.args_map, "cluster"))
    THEN Handled("The Cluster name (-c, --cluster) has to be defined for 'jobscript' command",
                 << >>, << >>, NoParse, "loop")
    ELSE IF ~Truthy(DictGet(c.args_map, "jobid"))
    THEN Handled("The JobID (-j, --jobid) has to be defined for 'jobscript' command",
                 << >>, << >>, NoParse, "loop")
    ELSE Paginated(get_jobscript(DictGet(c.args_map, "cluster"),
                                 DictGet(c.args_map, "jobid"), outcome), NoParse)

\* Command lines an operator may type after jobscript inside the shell.
JobscriptLines ==
    { << >>,
      <<"-c", "genius", "-j", "123">>,
      <<"--cluster", "genius">>,
      <<"-j", "123">>,
      <<"-c", "genius", "-s", "uge">> }

DoJobscript(args, outcome) ==
    /\ phase = "loop"
    /\ \E r \in {jobscript(args, outcome)} : \E pager \in PagerFor(r) :
       /\ phase' = PhaseAfter(r, pager)
       /\ last' = [Answered(Record("jobscript", r.err, NONE, r.reqs, r.out, r.parse, session),
                            args, Reply(outcome, {}))
                   EXCEPT !.pager = pager]
       /\ UNCHANGED <<schema, session, prompt, argv, argres>>

-----------------------------------------------------------------------------
(* do_help, do_exit                                                        *)

\* Topics an operator may type after help ("" is help with no argument).
HelpTopics == {"", "select", "zz"}

\* The commands that have a help_ method or a docstring.
HelpKnown == {"show", "select", "jobs", "jobinfo", "jobscript", "back", "help", "exit"}

DoHelp(arg) ==
    /\ phase = "loop"
    /\ last' = Record("help", "", NONE, << >>,
                      IF arg = "" THEN <<"Available Commands are:">>
                      ELSE IF arg \in HelpKnown THEN <<"help of", arg>>
                      ELSE <<"*** No help on", arg>>,
                      NoParse, session)
    /\ UNCHANGED <<schema, session, prompt, phase, argv, argres>>

DoExit ==
    /\ phase = "loop"
    /\ phase' = "exited"
    /\ last' = Record("exit", "", NONE, << >>, <<"Bye!">>, NoParse, session)
    /\ UNCHANGED <<schema, session, prompt, argv, argres>>

-----------------------------------------------------------------------------
(* The validator on its own: a token stream is typed one token at a time   *)
(* and _pars_jobs_args is applied to every stream so typed.                *)

\* Each stream draws its tokens from one of these vocabularies.
Vocabularies ==
    { {"-j", "-t", "-c", "-js", "-d", "f", "7", "0"},
      {"--job-status", "--days", "-u", "F", "r", "x", "1.5", "7"},
      {"-f", "--files", "-u", "--username", "x", "quanah"} }

InitArgs ==
    /\ schema = PlainSchema
    /\ session = NewSession
    /\ prompt = <<"Provenance", "> ">>
    /\ phase = "loop"
    /\ last = Record("init", "", NONE, << >>, << >>, NoParse, NewSession)
    /\ argv = << >>
    /\ argres = pars_jobs_args(<< >>)

TypeToken(tok) ==
    /\ Len(argv) < MaxTokens
    /\ \E V \in Vocabularies : tok \in V /\ \A i \in DOMAIN argv : argv[i] \in V
    /\ argv' = Append(argv, tok)
    /\ argres' = pars_jobs_args(argv')
    /\ UNCHANGED <<schema, session, prompt, phase, last>>

NextArgs == \E tok \in UNION Vocabularies : TypeToken(tok)

SpecArgs == InitArgs /\ [][NextArgs]_vars

-----------------------------------------------------------------------------
(* ProvenanceShell.__init__                                                *)

\* What the API server answers to the GET of /schema: a JSON body (a dict,
\* with or without the key 'schema'), an HTTP error status, or nothing.
SchemaFetch(status, body) == [status |-> status, body |-> body]

SchemaFetches ==
    {SchemaFetch("ok", <<Entry("schema", sch)>>) : sch \in Schemas}
    \cup { SchemaFetch("ok", << >>),
           SchemaFetch("ok", <<Entry("schema", << >>)>>),
           SchemaFetch("ok", <<Entry("schema", <<Entry("mds", <<Entry("s1", <<"t1">>)>>)>>)>>),
           SchemaFetch("ok", <<Entry("schema", <<Entry("oss", <<Entry("s2", <<"t3">>)>>)>>)>>),
           SchemaFetch("http404", << >>),
           SchemaFetch("http500", << >>),
           SchemaFetch("urlerror", << >>) }

\* The shell after __init__: the schema it holds, the phase of the
\* process, and what was printed.
Started(sch, ph, err, out) == [schema |-> sch, phase |-> ph, err |-> err, out |-> out]

\* Faulty variant of exit_without_arg: the call prints and returns.
exit_without_arg_returns == "returned"

\* self.do_exit() as __init__ writes it: do_exit(self, noarg) is called
\* without its argument, so the call raises TypeError before its body runs.
exit_without_arg == "TypeError"

\* ProvenanceShell.__init__, from the fetch of the schema on.  RESTful_API.get
\* returns None after an HTTP error, and None.get raises AttributeError;
\* nothing in __init__ or in the main block catches an exception other
\* than KeyboardInterrupt.
shell_init(fetch) ==
    LET has == fetch.status = "ok" /\ DictHas(fetch.body, "schema")
        lustre_schema == IF has THEN DictGet(fetch.body, "schema") ELSE << >>
        keys == {lustre_schema[i].k : i \in DOMAIN lustre_schema}
    IN
    IF fetch.status = "urlerror"
    THEN Started(<< >>, "exit1", "Provenance Cli cannot connect to the API server", << >>)
    ELSE IF fetch.status # "ok"
    THEN Started(<< >>, "crashed", "AttributeError", << >>)
    ELSE IF lustre_schema = << >> /\ exit_without_arg = "TypeError"
    THEN Started(lustre_schema, "crashed", "TypeError", <<"The Lustre Schema is empty.">>)
    ELSE IF ~has
    THEN Started(lustre_schema, "crashed", "TypeError", <<"The Lustre Schema is empty.">>)
    ELSE IF ~({"oss", "mds"} \subseteq keys) /\ exit_without_arg = "TypeError"
    THEN Started(lustre_schema, "crashed", "TypeError",
                 <<"The 'Lustre Schema' is wrong or incompelete.">>)
    ELSE Started(lustre_schema, "loop", "", << >>)

-----------------------------------------------------------------------------
(* The shell.                                                              *)

Init ==
    \E fetch \in SchemaFetches : \E r \in {shell_init(fetch)} :
    /\ schema = r.schema
    /\ session = NewSession
    /\ prompt = <<"Provenance", "> ">>
    /\ phase = r.phase
    /\ last = Answered(Record("init", r.err, NONE, <<gen_api_url("/schema", << >>)>>,
                              r.out, NoParse, NewSession),
                       << >>, Reply(fetch.status, {}))
    /\ argv = << >>
    /\ argres = NoParse

Next ==
    \/ \E args \in ArgLists(Names \cup Keywords, MaxArgs) : DoSelect(args)
    \/ DoBack
    \/ \E args \in ArgLists(JobsWords, MaxJobsArgs) \cup JobsLines, outcome \in ApiOutcomes :
          DoJobs(args, outcome)
    \/ \E args \in ArgLists(ShowWords, MaxArgs) : DoShow(args)
    \/ \E args \in JobinfoLines, reply \in DetailReplies : DoJobinfo(args, reply)
    \/ \E args \in JobscriptLines, outcome \in ApiOutcomes : DoJobscript(args, outcome)
    \/ \E arg \in HelpTopics : DoHelp(arg)
    \/ DoExit

Spec == Init /\ [][Next]_vars

-----------------------------------------------------------------------------
(* Properties of the session state machine (specification Spec).           *)

ServerModes == {"SERVER", "TARGET"}

SelectForms ==
    {"select server", "select target", "select jobs", "select bare", "select malformed"}

\* The target list the schema gives for a server of a kind.
SchemaTargets(stype, sname) == DictGet(DictGet(schema, stype), sname)

\* Every target list of the schema.
SchemaLists ==
    UNION { {DictGet(schema, t)[i].v : i \in DOMAIN DictGet(schema, t)} : t \in {"mds", "oss"} }

\* C1: in every reachable state the Session fields agree with the mode:
\* serverType, serverName and targetList are set exactly in the SERVER and
\* TARGET modes, targetName exactly in the TARGET mode, and in the ROOT and
\* JOBS modes the three names are None and targetList is empty.
C1_FieldsAgreeWithMode ==
    /\ session.mode \in {"ROOT", "SERVER", "TARGET", "JOBS"}
    /\ (session.serverType # NONE) <=> (session.mode \in ServerModes)
    /\ (session.serverName # NONE) <=> (session.mode \in ServerModes)
    /\ (session.targetName # NONE) <=> (session.mode = "TARGET")
    /\ session.mode \in ServerModes =>
          /\ session.serverType \in {"mds", "oss"}
          /\ session.targetList \in SchemaLists
    /\ session.mode \notin ServerModes => session.targetList = << >>

\* A target was selected and 'select jobs' then cleared every field.
C1_Witness ==
    /\ last.cmd = "select jobs"
    /\ last.prev.mode = "TARGET"
    /\ session.mode = "JOBS"

\* C2: 'select server <name>' is accepted from every mode; a name of the
\* metadata catalog gives SERVER of kind mds, otherwise a name of the
\* object catalog gives SERVER of kind oss, in both cases with that
\* catalog's target list and no target selected; any other name is an
\* unknown-server error.
C2_SelectServer ==
    last.cmd = "select server" =>
        IF InList(last.name, DictKeys(DictGet(schema, "mds")))
        THEN /\ last.err = ""
             /\ session = [mode |-> "SERVER", serverType |-> "mds",
                           serverName |-> last.name, targetName |-> NONE,
                           targetList |-> SchemaTargets("mds", last.name)]
        ELSE IF InList(last.name, DictKeys(DictGet(schema, "oss")))
        THEN /\ last.err = ""
             /\ session = [mode |-> "SERVER", serverType |-> "oss",
                           serverName |-> last.name, targetName |-> NONE,
                           targetList |-> SchemaTargets("oss", last.name)]
        ELSE /\ last.err = "is not a correct server name"
             /\ session = last.prev

\* From the TARGET mode, a name that is in both catalogs was selected and
\* became the metadata server, the target cleared.
C2_Witness ==
    /\ last.cmd = "select server"
    /\ last.prev.mode = "TARGET"
    /\ InList(last.name, DictKeys(DictGet(schema, "mds")))
    /\ InList(last.name, DictKeys(DictGet(schema, "oss")))
    /\ session.mode = "SERVER"
    /\ session.serverType = "mds"
    /\ session.targetName = NONE

\* C3: 'select target <name>' in the ROOT or JOBS mode fails with the
\* no-server-selected error for every name and leaves the session as it was.
C3_SelectTargetNeedsServer ==
    (last.cmd = "select target" /\ last.prev.mode \in {"ROOT", "JOBS"}) =>
        /\ last.err = "No Server has been selected for target"
        /\ session = last.prev

\* In the JOBS mode the name of a real target of the schema was refused.
C3_Witness ==
    /\ last.cmd = "select target"
    /\ last.prev.mode = "JOBS"
    /\ \E l \in SchemaLists : InList(last.name, l)
    /\ last.err = "No Server has been selected for target"

\* C4: from SERVER or TARGET, 'select target <name>' succeeds exactly when
\* name is in the session's targetList; then the mode is TARGET, targetName
\* is name and the server fields are as before; otherwise it is the
\* unknown-target error and the whole session is as before.
C4_SelectTarget ==
    (last.cmd = "select target" /\ last.prev.mode \in ServerModes) =>
        IF InList(last.name, last.prev.targetList)
        THEN /\ last.err = ""
             /\ session = [last.prev EXCEPT !.mode = "TARGET", !.targetName = last.name]
        ELSE /\ last.err = "is not a MDT target of server"
             /\ session = last.prev

\* With a target selected, an unknown target was refused and the selected
\* target kept.
C4_Witness ==
    /\ last.cmd = "select target"
    /\ last.prev.mode = "TARGET"
    /\ ~InList(last.name, last.prev.targetList)
    /\ session.mode = "TARGET"
    /\ session.targetName = last.prev.targetName

\* C5: 'back' from TARGET gives SERVER with the same server and target list
\* and no target; from SERVER or JOBS it gives the cleared ROOT; from ROOT
\* it changes nothing; and a 'back' that follows a 'back' ends in ROOT.
C5_StepBack ==
    [][ last'.cmd = "back" =>
          /\ session.mode = "TARGET" =>
                session' = [session EXCEPT !.mode = "SERVER", !.targetName = NONE]
          /\ session.mode \in {"SERVER", "JOBS"} => session' = NewSession
          /\ session.mode = "ROOT" => session' = session
          /\ last.cmd = "back" => session'.mode = "ROOT"
      ]_vars

\* A 'back' left the TARGET mode for the SERVER mode of the same server.
C5_Witness ==
    /\ last.cmd = "back"
    /\ last.prev.mode = "TARGET"
    /\ session.mode = "SERVER"
    /\ session.serverName = last.prev.serverName
    /\ session.targetList = last.prev.targetList
    /\ session.targetName = NONE

\* C6: in the SERVER and TARGET modes the session's targetList is the
\* schema's list of the selected server under the selected kind, in the
\* schema's order, and 'show targets' lists exactly it; in the ROOT and
\* JOBS modes 'show targets' fails with the no-server error and lists
\* nothing.
C6_TargetListOfSchema ==
    /\ session.mode \in ServerModes =>
          session.targetList = SchemaTargets(session.serverType, session.serverName)
    /\ last.cmd = "show targets" =>
          IF session.mode \in ServerModes
          THEN /\ last.err = ""
               /\ last.out = <<"targets in", session.serverName>>
                             \o SchemaTargets(session.serverType, session.serverName)
          ELSE /\ last.err = "No server has been selected"
               /\ last.out = << >>

\* 'show targets' listed the two targets of a server in the schema's order.
C6_Witness ==
    /\ last.cmd = "show targets"
    /\ session.mode = "TARGET"
    /\ Len(session.targetList) = 2
    /\ last.out = <<"targets in", session.serverName,
                    session.targetList[1], session.targetList[2]>>

\* C7: show, jobs, jobinfo, jobscript and help leave the session as it
\* was, whatever their outcome, and so does a select command that fails.
C7_OnlySelectAndBackMutate ==
    /\ last.cmd \in {"show", "show targets", "jobs", "jobinfo", "jobscript", "help"} =>
          session = last.prev
    /\ (last.cmd \in SelectForms /\ last.err # "") => session = last.prev

\* With a target selected, 'select server' with an unknown name failed.
C7_Witness ==
    /\ last.cmd = "select server"
    /\ last.err = "is not a correct server name"
    /\ session.mode = "TARGET"

\* The path of the one request of 'jobs' in session s.
JobsPath(s) ==
    IF s.mode = "JOBS" THEN "/provenance/jobinfo"
    ELSE "/provenance/" \o s.serverType \o "/" \o s.serverName
         \o (IF s.mode = "TARGET" THEN "/" \o s.targetName ELSE "")

\* The files flag was given where do_jobs refuses it.
FilesRefused(s, parse) ==
    /\ DictHas(parse.map, "files")
    /\ ~(s.mode = "TARGET" /\ s.serverType = "mds")

\* C8 as stated: 'jobs' issues no request in the ROOT mode or when the
\* validator does not accept the arguments, and otherwise exactly one
\* request, whose path the session determines.
C8_Original ==
    last.cmd = "jobs" =>
        IF session.mode = "ROOT" \/ last.parse.status # "ok"
        THEN last.reqs = << >>
        ELSE /\ Len(last.reqs) = 1
             /\ last.reqs[1].path = JobsPath(session)

\* C8 as amended: 'jobs' issues no request in the ROOT mode, when the
\* validator does not accept the arguments, or when the files flag is given
\* outside the TARGET mode of a metadata server; otherwise it issues
\* exactly one request, whose path the session determines.
C8_JobsRequests ==
    last.cmd = "jobs" =>
        IF \/ session.mode = "ROOT"
           \/ last.parse.status # "ok"
           \/ FilesRefused(session, last.parse)
        THEN last.reqs = << >>
        ELSE /\ Len(last.reqs) = 1
             /\ last.reqs[1].path = JobsPath(session)

\* 'jobs' sent its one request for a target of an object server.
C8_Witness ==
    /\ last.cmd = "jobs"
    /\ session.mode = "TARGET"
    /\ session.serverType = "oss"
    /\ Len(last.reqs) = 1
    /\ last.reqs[1].path = "/provenance/oss/" \o session.serverName \o "/" \o session.targetName

\* The validator met a days value that is not an integer >= 1.
BadDays(parse) ==
    \/ parse.status = "raise" /\ parse.error[1] = "ValueError"
    \/ parse.status = "error" /\ parse.error[1] = "The Number of days cannot be less than '1'"

\* C10: a days value that is not an integer >= 1 is a usage error: the
\* validator returns an error, 'jobs' is aborted with no request, and the
\* shell goes on reading commands.
C10_BadDaysIsUsageError ==
    (last.cmd = "jobs" /\ BadDays(last.parse)) =>
        /\ last.parse.status = "error"
        /\ last.err # ""
        /\ last.reqs = << >>
        /\ phase = "loop"

-----------------------------------------------------------------------------
(* Properties of the startup (specification Spec).                         *)

\* The schema the shell holds is empty or absent, or lacks the 'mds' or
\* the 'oss' catalog.
UnusableSchema == ~({"mds", "oss"} \subseteq {schema[i].k : i \in DOMAIN schema})

\* C12: with a schema that is empty, absent, or without the 'mds' or the
\* 'oss' catalog, the process has ended in __init__ and the command loop
\* has dispatched nothing.
C12_NoLoopOnUnusableSchema ==
    UnusableSchema =>
        /\ phase \in {"crashed", "exit1"}
        /\ last.cmd = "init"

\* The fetched schema had no 'oss' catalog and the process ended at once.
C12_Witness ==
    /\ DictHas(schema, "mds") /\ ~DictHas(schema, "oss")
    /\ phase = "crashed"
    /\ last.out = <<"The 'Lustre Schema' is wrong or incompelete.">>

-----------------------------------------------------------------------------
(* Properties of the API calls (specification Spec).                       *)

\* The commands that call the API.
ApiCommands == {"jobs", "jobinfo", "jobscript"}

\* The two texts that stand for 'no result'.
NoResultTexts == {NoResult, "** The Job Submission Script was not found **"}

\* C11: when the request of a command is answered with HTTP 404 the
\* command renders 'no result' and the shell goes on; when it is answered
\* with another HTTP error status, or the connection fails, the process
\* exits with a non-zero status instead of rendering anything.
C11_OtherErrorsAreFatal ==
    (last.cmd \in ApiCommands /\ last.reqs # << >>) =>
        /\ last.reply.status = "http404" =>
              /\ phase = "loop"
              /\ Len(last.out) = 1 /\ last.out[1] \in NoResultTexts
        /\ last.reply.status \in {"http500", "urlerror"} =>
              /\ phase = "exit1"
              /\ last.out = << >>

\* The filter flags typed on a jobinfo line.
TypedFlags(line) ==
    {jobinfo_flags[j].k : j \in {n \in DOMAIN jobinfo_flags :
                                   \E i \in DOMAIN line : InList(line[i], jobinfo_flags[n].v)}}

\* The rendering of a job-detail record that holds the given sections,
\* asked for with the given filter flags: the job's own tables, then each
\* section that is both asked for (by its flag, or by giving no flag) and
\* held by the record.
DetailText(flags, sections) ==
    "[JOB INFO]"
    \o (IF (flags = {} \/ "mds" \in flags) /\ "mds_data" \in sections THEN "[MDS]" ELSE "")
    \o (IF (flags = {} \/ "oss" \in flags) /\ "oss_data" \in sections THEN "[OSS]" ELSE "")
    \o (IF (flags = {} \/ "files" \in flags) /\ "fileop_data" \in sections
        THEN "[Files OPs]" ELSE "")

\* C13: a job-detail record is rendered whatever sections it holds: the
\* sections it holds are rendered, the absent ones are left out, and the
\* shell goes on.
C13_AbsentSectionsOmitted ==
    (last.cmd = "jobinfo" /\ last.reply.status = "rows") =>
        /\ phase = "loop"
        /\ last.out = <<DetailText(TypedFlags(last.line), last.reply.sections)>>

\* C14: a list query or a detail query whose response is missing (404),
\* has a null 'result' or has an empty 'result' array renders exactly the
\* sentinel and nothing else, and the shell goes on.
C14_EmptyResultIsSentinel ==
    ( /\ last.cmd \in {"jobs", "jobinfo"}
      /\ last.reqs # << >>
      /\ last.reply.status \in {"http404", "null", "empty"} ) =>
        /\ last.out = <<NoResult>>
        /\ phase = "loop"

\* The list of all jobs was asked for and the 'result' array was empty.
C14_Witness ==
    /\ last.cmd = "jobs"
    /\ Len(last.reqs) = 1 /\ last.reqs[1].path = "/provenance/jobinfo"
    /\ last.reply.status = "empty"
    /\ last.out = <<NoResult>>

\* The value typed after one of the spellings of an option on a line that
\* gives the option at most once, or NONE.
Given(line, spellings) ==
    IF \E i \in 1..(Len(line) - 1) : line[i] \in spellings
    THEN line[(CHOOSE i \in 1..(Len(line) - 1) : line[i] \in spellings) + 1]
    ELSE NONE

\* The identity key of a job as the specification defines it: the hash of
\* the fields that are given, in the order scheduler, cluster, jobId,
\* taskId, with nothing between them.
IdentityKey(sched, cluster, jobid, taskid) ==
    LET field(v) == IF v = NONE THEN "" ELSE v
    IN  md5(field(sched) \o field(cluster) \o field(jobid) \o field(taskid))

\* C15: the key in the path of a job-detail request and the uid parameter
\* of a list request are both the identity key of the fields given (a list
\* request has no scheduler); and for the same cluster and jobId the key
\* without a scheduler differs from the key with one.
C15_IdentityKey ==
    /\ (last.cmd = "jobinfo" /\ last.reqs # << >>) =>
          last.reqs[1].path =
              "/provenance/jobinfo/"
              \o IdentityKey(Given(last.line, {"-s"}), Given(last.line, {"-c"}),
                             Given(last.line, {"-j"}), Given(last.line, {"-t"}))
    /\ (last.cmd = "jobs" /\ last.reqs # << >> /\ Truthy(DictGet(last.parse.map, "jobid"))) =>
          DictGet(last.reqs[1].params, "uid") =
              IdentityKey(NONE, DictGet(last.parse.map, "cluster"),
                          DictGet(last.parse.map, "jobid"),
                          DictGet(last.parse.map, "taskid"))
    /\ \A cluster \in {"genius", "quanah"}, jobid \in {"123", "4"} :
          /\ uniqID(cluster, NONE, jobid, NONE) # uniqID(cluster, "uge", jobid, NONE)
          /\ uniqID(cluster, "", jobid, NONE) # uniqID(cluster, "uge", jobid, NONE)

\* A list request was sent for a task of a job, with the key of cluster,
\* jobId and taskId as its uid.
C15_Witness ==
    /\ last.cmd = "jobs"
    /\ Len(last.reqs) = 1
    /\ last.reqs[1].params = <<Entry("uid", "md5:quanah4123")>>

LongForms == <<Entry("--cluster", "-c"), Entry("--jobid", "-j"), Entry("--taskid", "-t")>>

ShortForm(line) ==
    [i \in DOMAIN line |-> IF DictHas(LongForms, line[i])
                           THEN DictGet(LongForms, line[i]) ELSE line[i]]

\* C17: a jobinfo line that uses the long spellings --cluster, --jobid or
\* --taskid, each followed by its value, does what the same line with the
\* short spellings does: the same error or none, and the same request.
C17_LongFormsAccepted ==
    (last.cmd = "jobinfo" /\ ShortForm(last.line) # last.line) =>
        /\ last.reqs = jobinfo(ShortForm(last.line), last.reply).reqs
        /\ last.err = jobinfo(ShortForm(last.line), last.reply).err

\* A field of an accepted filter is in the request: as part of the uid
\* when it is the jobid, the taskid or the cluster of a filter with a
\* jobid, and as its own key=value parameter otherwise.
Conveyed(field, map, params) ==
    IF field.k \in {"jobid", "taskid", "cluster"} /\ Truthy(DictGet(map, "jobid"))
    THEN DictGet(params, "uid") =
             IdentityKey(NONE, DictGet(map, "cluster"), DictGet(map, "jobid"),
                         DictGet(map, "taskid"))
    ELSE DictGet(params, field.k) = field.v

\* C18: the one request of jobs conveys every field of the filter the
\* validator accepted.
C18_FilterConveyed ==
    (last.cmd = "jobs" /\ last.parse.status = "ok" /\ last.reqs # << >>) =>
        \A i \in DOMAIN last.parse.map :
            Conveyed(last.parse.map[i], last.parse.map, last.reqs[1].params)

\* The session is in the TARGET mode of a metadata server.
OnMdt(s) == s.mode = "TARGET" /\ s.serverType = "mds"

\* C19: jobs with a files flag on its line sends a request only in the
\* TARGET mode of a metadata server; in every other state it reports an
\* error, sends nothing, and the shell goes on.
C19_FilesOnlyOnMdt ==
    (last.cmd = "jobs" /\ last.line # << >>) =>
        /\ last.reqs # << >> => OnMdt(session)
        /\ ~OnMdt(session) =>
              /\ last.err # ""
              /\ last.reqs = << >>
              /\ phase = "loop"

-----------------------------------------------------------------------------
(* Properties of the validator (specification SpecArgs).                   *)

\* C9: every filter the validator accepts has taskid only with jobid,
\* FINISHED only with days >= 1, jobid only with cluster, and js, when set,
\* RUNNING or FINISHED; FINISHED without days, taskid without jobid and
\* days 0 are rejected, FINISHED with days 7 is accepted.
C9_AcceptedFilter ==
    /\ argres.status = "ok" =>
          LET m == argres.map IN
          /\ Truthy(DictGet(m, "taskid")) => Truthy(DictGet(m, "jobid"))
          /\ DictGet(m, "js") = "FINISHED" =>
                /\ Truthy(DictGet(m, "days"))
                /\ ~int_raises(DictGet(m, "days"))
                /\ int(DictGet(m, "days")) >= 1
          /\ Truthy(DictGet(m, "jobid")) => Truthy(DictGet(m, "cluster"))
          /\ DictHas(m, "js") => DictGet(m, "js") \in {"RUNNING", "FINISHED"}
    /\ argv \in {<<"-js", "f">>, <<"-t", "7">>, <<"-d", "0">>} => argres.status = "error"
    /\ argv = <<"-js", "f", "-d", "7">> => argres.status = "ok"

\* A stream with a taskid, its jobid and the cluster was accepted.
C9_Witness ==
    /\ argres.status = "ok"
    /\ Truthy(DictGet(argres.map, "taskid"))
    /\ Truthy(DictGet(argres.map, "jobid"))

\* The tokens of a stream that are not a spelling of the files flag.
WithoutFiles(stream) == SelectSeq(stream, LAMBDA tok : ~InList(tok, files_opts))

\* C20: a stream with files-flag tokens, wherever and however often they
\* occur, is accepted whenever the stream without them is, and then with
\* the files option recorded next to the fields of the stream without
\* them.
C20_EveryFilesFlagRemoved ==
    (WithoutFiles(argv) # argv /\ pars_jobs_args(WithoutFiles(argv)).status = "ok") =>
        /\ argres.status = "ok"
        /\ DictHas(argres.map, "files")
        /\ DictPop(argres.map, "files") = pars_jobs_args(WithoutFiles(argv)).map


\* The field map as the pair walk leaves it, before any verification.
RawFields(stream) ==
    LET scanned == files_scan(stream, 1, << >>)
    IN  pair_walk(scanned.arg_list, 1, scanned.arg_map)

\* The verification step a field map violates first in the documented
\* order: a field with no value, an unrecognized status, an invalid days
\* value, FINISHED without days, jobid without cluster, taskid without
\* jobid; "none" when it violates no step.
FirstStepViolated(m) ==
    IF \E i \in DOMAIN m : ~Truthy(m[i].v) THEN "no value"
    ELSE IF DictHas(m, "js") /\ find_status(DictGet(m, "js"), 1) = NONE THEN "status"
    ELSE IF DictHas(m, "days") /\ (int_raises(DictGet(m, "days")) \/ int(DictGet(m, "days")) < 1)
    THEN "days"
    ELSE IF DictHas(m, "js") /\ find_status(DictGet(m, "js"), 1) = "FINISHED" /\ ~DictHas(m, "days")
    THEN "finished without days"
    ELSE IF DictHas(m, "jobid") /\ ~DictHas(m, "cluster") THEN "jobid without cluster"
    ELSE IF DictHas(m, "taskid") /\ ~DictHas(m, "jobid") THEN "taskid without jobid"
    ELSE "none"

\* The step that the error a validator result reports belongs to.
StepReported(res) ==
    IF res.status = "ok" THEN "none"
    ELSE IF res.status = "raise" THEN "exception"
    ELSE IF res.error[1] = "option has no value" THEN "no value"
    ELSE IF res.error[1] = "is not valid argument for option" THEN "status"
    ELSE IF res.error[1] = "The Number of days cannot be less than '1'" THEN "days"
    ELSE IF res.error[1] = "For 'FINISHED' jobs, [-d | --days] option must be defined"
    THEN "finished without days"
    ELSE IF res.error[1] = "The cluster name must be defined by [-c | --cluster]"
    THEN "jobid without cluster"
    ELSE IF res.error[1] = "jobid must be selected by [-j | --jobid] for the given 'taskid'"
    THEN "taskid without jobid"
    ELSE "pair"

\* C21: a stream whose flag/value pairs are all well formed is rejected
\* with the error of the earliest step of the documented order that its
\* field map violates (no value, status, days, FINISHED without days,
\* jobid without cluster, taskid without jobid), whatever the order in
\* which the flags were typed, and is accepted when it violates none.
C21_EarliestStepReported ==
    RawFields(argv).status = "ok" =>
        StepReported(argres) = FirstStepViolated(RawFields(argv).map)

-----------------------------------------------------------------------------
(* Properties of the shell, continued (specification Spec).                *)

\* C22: in every state the shell reaches, the prompt renders the current
\* session: no bracket in ROOT, [jobs] in JOBS, [serverName] in SERVER,
\* [serverName]->[targetName] in TARGET, with the server and the target
\* that are selected in that state.
C22_PromptRendersSession ==
    /\ session.mode = "ROOT" => prompt = <<"Provenance", "> ">>
    /\ session.mode = "JOBS" => prompt = <<"Provenance", " [", "jobs", "]", "> ">>
    /\ session.mode = "SERVER" =>
          prompt = <<"Provenance", " [", session.serverName, "]", "> ">>
    /\ session.mode = "TARGET" =>
          prompt = <<"Provenance", " [", session.serverName, "]->",
                     "[", session.targetName, "]", "> ">>
    /\ session.mode \in {"ROOT", "JOBS", "SERVER", "TARGET"}

\* A select command has moved the session from one target to another
\* one, and the prompt shows the new target.
C22_Witness ==
    /\ last.cmd \in SelectForms
    /\ last.err = ""
    /\ last.prev.mode = "TARGET"
    /\ session.mode = "TARGET"
    /\ session.targetName # last.prev.targetName
    /\ prompt[6] = session.targetName

-----------------------------------------------------------------------------
(* _convert_from_byte, the magnitude converter                             *)

\* A byte count is written in base 1014, most significant digit first, so
\* that every division by 1014 of the loop is exact: dividing moves the
\* point one digit to the left.  Only the three leading digits of a count
\* of the model may differ from 0.
Base == 1014

MaxDigits == 6

Digits == {0, 1, 2, 9, 10, 507, 1013}

\* The number 1024 = 1 * 1014 + 10.
Bytes1024 == <<1, 10>>

\* Faulty variant of units: one more unit after TB.
units_with_PB == <<"KB", "MB", "GB", "TB", "PB">>

\* units
units == <<"KB", "MB", "GB", "TB">>

\* The integer part of the count digits with its last p digits behind the
\* point.
RECURSIVE IntPart(_, _)
IntPart(digits, p) ==
    IF Len(digits) <= p THEN 0
    ELSE IntPart(SubSeq(digits, 1, Len(digits) - 1), p) * Base + digits[Len(digits) - p]

\* data_byte < 1024, for a count without leading zero digits
less_than_1024(digits, p) ==
    IF Len(digits) - p >= 3 THEN FALSE ELSE IntPart(digits, p) < 1024

\* "%.2f %s" % (data_byte, data_unit): the value rounded to hundredths.
format_2f(digits, p, data_unit) ==
    LET f1 == IF p >= 1 THEN digits[Len(digits) - p + 1] ELSE 0
        f2 == IF p >= 2 THEN digits[Len(digits) - p + 2] ELSE 0
        cents == (200 * (f1 * Base + f2) + Base * Base) \div (2 * Base * Base)
    IN  IF cents = 100
        THEN [whole |-> IntPart(digits, p) + 1, cents |-> 0, unit |-> data_unit]
        ELSE [whole |-> IntPart(digits, p), cents |-> cents, unit |-> data_unit]

\* while units: if data_byte < 1024: break; data_byte /= 1014;
\* data_unit = units.pop(0)
RECURSIVE convert_loop(_, _, _, _)
convert_loop(digits, p, units_left, data_unit) ==
    IF units_left = << >> THEN format_2f(digits, p, data_unit)
    ELSE IF less_than_1024(digits, p) THEN format_2f(digits, p, data_unit)
    ELSE convert_loop(digits, p + 1, Tail(units_left), Head(units_left))

\* ProvenanceShell._convert_from_byte
convert_from_byte(digits) == convert_loop(digits, 0, units, "B")

\* The converter on its own: a byte count is typed digit by digit and
\* converted.
InitBytes ==
    /\ schema = PlainSchema
    /\ session = NewSession
    /\ prompt = <<"Provenance", "> ">>
    /\ phase = "loop"
    /\ last = Record("init", "", NONE, << >>, << >>, NoParse, NewSession)
    /\ \E d \in Digits : argv = <<d>>
    /\ argres = convert_from_byte(argv)

TypeDigit(d) ==
    /\ Len(argv) < MaxDigits
    /\ argv[1] # 0
    /\ Len(argv) >= 3 => d = 0
    /\ argv' = Append(argv, d)
    /\ argres' = convert_from_byte(argv')
    /\ UNCHANGED <<schema, session, prompt, phase, last>>

NextBytes == \E d \in Digits : TypeDigit(d)

SpecBytes == InitBytes /\ [][NextBytes]_vars

-----------------------------------------------------------------------------
(* Properties of the converter (specification SpecBytes).                  *)

\* The number of divisions by 1014 the claim describes: one for every
\* step at which the value is still >= 1024, four at most.
RECURSIVE Divisions(_, _)
Divisions(digits, k) ==
    IF k = 4 \/ less_than_1024(digits, k) THEN k ELSE Divisions(digits, k + 1)

\* C25: a byte count under 1024 renders with unit B and its own
\* magnitude; any other count is divided by 1014 once per step while it is
\* still >= 1024, the unit advancing through KB, MB, GB, TB with every
\* division, four divisions at most; the magnitude shown is the quotient
\* rounded to two decimals, and 1024 renders as 1.01 KB.
C25_MagnitudeConverter ==
    LET k == Divisions(argv, 0) IN
    /\ less_than_1024(argv, 0) =>
          argres = [whole |-> IntPart(argv, 0), cents |-> 0, unit |-> "B"]
    /\ ~less_than_1024(argv, 0) =>
          /\ k \in 1..4
          /\ argres.unit = <<"KB", "MB", "GB", "TB">>[k]
          /\ \A j \in 0..(k - 1) : ~less_than_1024(argv, j)
          /\ k < 4 => less_than_1024(argv, k)
          /\ argres.whole \in {IntPart(argv, k), IntPart(argv, k) + 1}
          /\ argres.cents \in 0..99
    /\ Len(argv) = 2 /\ ~less_than_1024(argv, 0) =>
          LET shown == 100 * argres.whole + argres.cents
              diff == 100 * IntPart(argv, 0) - shown * Base
          IN  2 * diff <= Base /\ -(2 * diff) <= Base
    /\ argv = Bytes1024 => argres = [whole |-> 1, cents |-> 1, unit |-> "KB"]

\* A count of 1024 TB or more was converted: four divisions, unit TB.
C25_Witness ==
    /\ Len(argv) = 6
    /\ argres.unit = "TB"
    /\ argres.whole >= 1024

-----------------------------------------------------------------------------
(* _find_absolute_path                                                     *)

\* The values the three fields of a file record take in the model: None,
\* the empty string and some names.
TargetFiles == {NONE, "", "f.txt", "a", "File"}

TargetPaths == {NONE, "", "/a/f.txt", "/a", "/b", "File Not Exist"}

ParentPaths == {NONE, "", "/a", "/b"}

\* target_file in target_path: the pairs of the model's strings of which
\* the first is a substring of the second.
SubstringPairs ==
    { <<"f.txt", "/a/f.txt">>, <<"a", "/a/f.txt">>, <<"a", "/a">>,
      <<"File", "File Not Exist">> }

\* if not x: x = ""
or_empty(x) == IF x = NONE THEN "" ELSE x

\* Faulty variant of find_absolute_path: the literal 'File Not Exist' is
\* taken for a path.
find_absolute_path_no_literal(target_file, target_path, parent_path) ==
    LET parent == or_empty(parent_path)
        path == or_empty(target_path)
    IN  IF Truthy(target_file)
        THEN IF <<target_file, path>> \in SubstringPairs
             THEN path
             ELSE (IF parent # "" THEN parent \o "/" ELSE "") \o target_file
        ELSE IF path # "" THEN path
        ELSE IF parent # "" THEN parent
        ELSE "Changelog didn't Record the Path"

\* RESTful_API._find_absolute_path
find_absolute_path(target_file, target_path, parent_path) ==
    LET parent == or_empty(parent_path)
        path == or_empty(target_path)
    IN  IF Truthy(target_file)
        THEN IF <<target_file, path>> \in SubstringPairs
             THEN path
             ELSE (IF parent # "" THEN parent \o "/" ELSE "") \o target_file
        ELSE IF path # ""
        THEN IF "File Not Exist" = path
             THEN (IF parent # "" THEN parent ELSE "Changelog didn't Record the Path")
             ELSE path
        ELSE IF parent # "" THEN parent
        ELSE "Changelog didn't Record the Path"

\* The resolver on its own: the three fields of a file record are set one
\* at a time and the path is resolved after each change.
InitPath ==
    /\ schema = PlainSchema
    /\ session = NewSession
    /\ prompt = <<"Provenance", "> ">>
    /\ phase = "loop"
    /\ last = Record("init", "", NONE, << >>, << >>, NoParse, NewSession)
    /\ argv = <<NONE, NONE, NONE>>
    /\ argres = find_absolute_path(NONE, NONE, NONE)

Resolve(fields) ==
    /\ argv' = fields
    /\ argres' = find_absolute_path(fields[1], fields[2], fields[3])
    /\ UNCHANGED <<schema, session, prompt, phase, last>>

SetTargetFile(f) == Resolve(<<f, argv[2], argv[3]>>)

SetTargetPath(p) == Resolve(<<argv[1], p, argv[3]>>)

SetParentPath(q) == Resolve(<<argv[1], argv[2], q>>)

NextPath ==
    \/ \E f \in TargetFiles : SetTargetFile(f)
    \/ \E p \in TargetPaths : SetTargetPath(p)
    \/ \E q \in ParentPaths : SetParentPath(q)

SpecPath == InitPath /\ [][NextPath]_vars

-----------------------------------------------------------------------------
(* Properties of the resolver (specification SpecPath).                    *)

\* A field that is neither None nor the empty string.
NonEmpty(x) == x \notin {NONE, ""}

\* C24: the resolved path is targetPath when targetFile is set and a
\* substring of it; parentPath/targetFile, or targetFile alone when
\* parentPath is empty, when targetFile is set otherwise; targetPath when
\* only targetFile is empty, unless targetPath is the literal 'File Not
\* Exist', which gives parentPath or else the placeholder; parentPath
\* when it alone is set; the placeholder when all are empty; and it is
\* never the empty string.
C24_AbsolutePath ==
    LET tf == argv[1]
        tp == argv[2]
        pp == argv[3]
        placeholder == "Changelog didn't Record the Path"
    IN  /\ NonEmpty(tf) /\ <<tf, tp>> \in SubstringPairs => argres = tp
        /\ NonEmpty(tf) /\ <<tf, tp>> \notin SubstringPairs =>
              argres = IF NonEmpty(pp) THEN pp \o "/" \o tf ELSE tf
        /\ ~NonEmpty(tf) /\ NonEmpty(tp) /\ tp # "File Not Exist" => argres = tp
        /\ ~NonEmpty(tf) /\ tp = "File Not Exist" =>
              argres = IF NonEmpty(pp) THEN pp ELSE placeholder
        /\ ~NonEmpty(tf) /\ ~NonEmpty(tp) /\ NonEmpty(pp) => argres = pp
        /\ ~NonEmpty(tf) /\ ~NonEmpty(tp) /\ ~NonEmpty(pp) => argres = placeholder
        /\ argres # ""

\* A record without target file whose target path is the literal 'File
\* Not Exist' was resolved to its parent path.
C24_Witness ==
    /\ argv = <<"", "File Not Exist", "/a">>
    /\ argres = "/a"

-----------------------------------------------------------------------------
(* get_job_detail: the per-host tables of the MDS and OSS sections         *)

\* One element of data["mds_data"] or data["oss_data"]: the key of its
\* dict (info), the host and target identifiers of that dict, and its
\* other items (stats) in the order of the dict.
DetailEntry(info, host, target, stats) ==
    [info |-> info, host |-> host, target |-> target, stats |-> stats]

MaxEntries == 3

\* The stats a metadata-server entry of the model carries.
MdsStats ==
    { <<Entry("modified_time", 1)>>,
      <<Entry("modified_time", 1), Entry("open", 2)>>,
      <<Entry("open", 2), Entry("modified_time", 1), Entry("close", 0)>>,
      <<Entry("modified_time", 1), Entry("file_op", 0), Entry("open", 2)>>,
      <<Entry("open", 2)>> }

\* The stats an object-server entry of the model carries.
OssStats ==
    { <<Entry("modified_time", 1), Entry("read_bytes", 1), Entry("write_bytes", 2)>>,
      <<Entry("modified_time", 1), Entry("read_bytes", 1), Entry("write_bytes", 2),
        Entry("read_bytes_sum", 2)>>,
      <<Entry("read_bytes", 1), Entry("modified_time", 1)>> }

MdsEntries ==
    { DetailEntry("mds_info", h, t, s) : h \in {"m1", "m2"}, t \in {"MDT0", "MDT1"}, s \in MdsStats }

OssEntries ==
    { DetailEntry("oss_info", h, t, s) : h \in {"o1", "o2"}, t \in {"OST0", "OST1"}, s \in OssStats }

\* str(value) of a small number
DecimalText(n) == <<"0", "1", "2", "3", "4", "5", "6", "7", "8", "9">>[n + 1]

\* datetime.fromtimestamp(float(value)).strftime("%m-%d-%Y\n%H:%M:%S")
DateText(n) == "01-01-1970 00:00:0" \o DecimalText(n)

\* The text "%.2f %s" of a converted byte count
BytesText(c) ==
    DecimalText(c.whole) \o "." \o DecimalText(c.cents \div 10)
        \o DecimalText(c.cents % 10) \o " " \o c.unit

\* "_bytes_" in key
has_bytes(key) == key \in {"read_bytes_sum", "write_bytes_sum"}

\* for xData in x_list: host = xData[info].pop(host_key); the entries of
\* every host, hosts in the order of their first entry.
RECURSIVE map_by_host(_, _, _)
map_by_host(list, i, host_map) ==
    IF i > Len(list) THEN host_map
    ELSE IF DictHas(host_map, list[i].host)
    THEN map_by_host(list, i + 1,
             DictUpdate(host_map, list[i].host, Append(DictGet(host_map, list[i].host), list[i])))
    ELSE map_by_host(list, i + 1, DictUpdate(host_map, list[i].host, <<list[i]>>))

\* headers = [title for inx in range(len(lst)) for title in [f"({target})", "Stats"]]
RECURSIVE headers_of(_, _)
headers_of(lst, i) ==
    IF i > Len(lst) THEN << >>
    ELSE <<"(" \o lst[i].target \o ")", "Stats">> \o headers_of(lst, i + 1)

\* The items whose lookup raises KeyError when they are missing.
required_items(info) ==
    IF info = "mds_info" THEN {"modified_time"}
    ELSE {"modified_time", "read_bytes", "write_bytes"}

\* col = [[key, text of value] for key, value in xData.items() ...]
col_of(entry) ==
    LET kept == IF entry.info = "mds_info"
                THEN SelectSeq(entry.stats, LAMBDA e : e.k # "file_op")
                ELSE entry.stats
        text(e) == IF e.k = "modified_time" THEN DateText(e.v)
                   ELSE IF entry.info = "mds_info" THEN DecimalText(e.v)
                   ELSE IF e.k \in {"read_bytes", "write_bytes"} THEN DecimalText(e.v) \o " OPs"
                   ELSE IF has_bytes(e.k) THEN BytesText(convert_from_byte(<<e.v>>))
                   ELSE DecimalText(e.v)
    IN  [i \in DOMAIN kept |-> <<kept[i].k, text(kept[i])>>]

\* The length of the shortest of the columns: where zip(*table) stops.
RECURSIVE shortest(_, _)
shortest(cols, i) ==
    IF i = Len(cols) THEN Len(cols[i])
    ELSE LET rest == shortest(cols, i + 1)
         IN  IF Len(cols[i]) < rest THEN Len(cols[i]) ELSE rest

\* list(chain(*x)) of the r-th tuple of zip(*cols)
RECURSIVE chain_row(_, _, _)
chain_row(cols, r, j) ==
    IF j > Len(cols) THEN << >> ELSE cols[j][r] \o chain_row(cols, r, j + 1)

\* list(map(lambda x: list(chain(*x)), zip(*cols)))
zip_rows(cols) ==
    [r \in 1..shortest(cols, 1) |-> chain_row(cols, r, 1)]

\* One table given to tabulate: the host it is titled with, its headers
\* and its rows.
host_table(host, lst) ==
    [host |-> host, headers |-> headers_of(lst, 1),
     rows |-> zip_rows([j \in DOMAIN lst |-> col_of(lst[j])])]

\* The "Create MDS Tables" / "Create OSS Tables" loops of get_job_detail:
\* the tables of a section, or the KeyError of an entry that lacks an
\* item the loop reads.
section_tables(list) ==
    IF \E i \in DOMAIN list : \E key \in required_items(list[i].info) :
           ~DictHas(list[i].stats, key)
    THEN [status |-> "raise", tables |-> << >>]
    ELSE LET host_map == map_by_host(list, 1, << >>)
         IN  [status |-> "ok",
              tables |-> [h \in DOMAIN host_map |-> host_table(host_map[h].k, host_map[h].v)]]

\* The pivot on its own: the entries of one section arrive one at a time
\* and the section is laid out after each.
InitPivot ==
    /\ schema = PlainSchema
    /\ session = NewSession
    /\ prompt = <<"Provenance", "> ">>
    /\ phase = "loop"
    /\ last = Record("init", "", NONE, << >>, << >>, NoParse, NewSession)
    /\ argv = << >>
    /\ argres = section_tables(<< >>)

AddEntry(e) ==
    /\ Len(argv) < MaxEntries
    /\ \A i \in DOMAIN argv : argv[i].info = e.info
    /\ argv' = Append(argv, e)
    /\ argres' = section_tables(argv')
    /\ UNCHANGED <<schema, session, prompt, phase, last>>

NextPivot ==
    \/ \E e \in MdsEntries : AddEntry(e)
    \/ \E e \in OssEntries : AddEntry(e)

SpecPivot == InitPivot /\ [][NextPivot]_vars

-----------------------------------------------------------------------------
(* Properties of the pivot (specification SpecPivot).                      *)

\* The hosts of a list of entries, each once, in first-seen order.
RECURSIVE HostsInOrder(_, _, _)
HostsInOrder(list, i, seen) ==
    IF i > Len(list) THEN seen
    ELSE IF InList(list[i].host, seen) THEN HostsInOrder(list, i + 1, seen)
    ELSE HostsInOrder(list, i + 1, Append(seen, list[i].host))

\* The entries of a host, in the order of the list.
EntriesOf(list, host) == SelectSeq(list, LAMBDA e : e.host = host)

\* C23: a section that is laid out has one table per distinct host, in
\* first-seen host order; the table of a host has one (target), Stats
\* header pair per entry of the host, every row of it has two cells per
\* entry, and every stat of every entry (the file_op item of a metadata
\* entry aside) is named in some row under the header pair of its entry,
\* also when the entries of a host carry different numbers of stats.
C23_PivotKeepsEveryStat ==
    argres.status = "ok" =>
        LET hosts == HostsInOrder(argv, 1, << >>) IN
        /\ Len(argres.tables) = Len(hosts)
        /\ \A h \in DOMAIN hosts :
              LET table == argres.tables[h]
                  mine == EntriesOf(argv, hosts[h])
              IN  /\ table.host = hosts[h]
                  /\ Len(table.headers) = 2 * Len(mine)
                  /\ \A j \in DOMAIN mine :
                        /\ table.headers[2 * j - 1] = "(" \o mine[j].target \o ")"
                        /\ table.headers[2 * j] = "Stats"
                  /\ \A r \in DOMAIN table.rows : Len(table.rows[r]) = 2 * Len(mine)
                  /\ \A j \in DOMAIN mine : \A s \in DOMAIN mine[j].stats :
                        mine[j].stats[s].k # "file_op" =>
                            \E r \in DOMAIN table.rows :
                                table.rows[r][2 * j - 1] = mine[j].stats[s].k

-----------------------------------------------------------------------------
(* Properties of the validator, continued (specification SpecArgs).        *)

\* The positions of a stream that hold a spelling of the flag of a field.
FlagPositions(stream, key) ==
    {i \in DOMAIN stream : InList(stream[i], DictGet(valid_ops, key))}

\* The token that follows the last occurrence of the flag of a field in a
\* stream, NONE when the flag ends the stream.
ValueAfterLast(stream, key) ==
    LET at == CHOOSE i \in FlagPositions(stream, key) :
                  \A j \in FlagPositions(stream, key) : j <= i
    IN  IF at < Len(stream) THEN stream[at + 1] ELSE NONE

\* The fields of an accepted filter that were typed with a value.
ValueFields(map) == {map[i].k : i \in DOMAIN map} \ {"files"}

\* C26 as stated: every field of an accepted filter, js included, holds
\* exactly the token that followed the last occurrence of its flag.
C26_Original ==
    argres.status = "ok" =>
        \A key \in ValueFields(argres.map) :
            /\ FlagPositions(WithoutFiles(argv), key) # {}
            /\ DictGet(argres.map, key) = ValueAfterLast(WithoutFiles(argv), key)

\* C26: in an accepted filter every field other than files and js holds
\* exactly the token that followed the last occurrence of its flag in the
\* stream without its files flags, and js holds the status that token
\* stands for; no field holds the value typed after the flag of another
\* field, and every flag typed has its field in the filter.
C26_ValuesUnderTheirFlags ==
    argres.status = "ok" =>
        /\ \A key \in ValueFields(argres.map) :
              /\ FlagPositions(WithoutFiles(argv), key) # {}
              /\ key # "js" =>
                    DictGet(argres.map, key) = ValueAfterLast(WithoutFiles(argv), key)
              /\ key = "js" =>
                    DictGet(argres.map, key) =
                        find_status(ValueAfterLast(WithoutFiles(argv), key), 1)
        /\ \A i \in DOMAIN valid_ops :
              FlagPositions(WithoutFiles(argv), valid_ops[i].k) # {} =>
                  DictHas(argres.map, valid_ops[i].k)

\* An accepted stream gave the same flag twice, in its short and in its
\* long spelling, with different values, and the filter holds the second.
C26_Witness ==
    /\ argres.status = "ok"
    /\ \E i, j \in DOMAIN argv :
          /\ i < j
          /\ argv[i] = "-u"
          /\ argv[j] = "--username"
          /\ j < Len(argv)
          /\ argv[i + 1] # argv[j + 1]
    /\ DictGet(argres.map, "user") = ValueAfterLast(argv, "user")

-----------------------------------------------------------------------------
(* Properties of the shell, continued (specification Spec).                *)

\* A name that is a server of one of the two catalogs of a schema.
IsServer(sch, name) ==
    \/ InList(name, DictKeys(DictGet(sch, "mds")))
    \/ InList(name, DictKeys(DictGet(sch, "oss")))

\* What the explicit form of select does with a name: select server for
\* a server of either catalog, select target for every other name.
Explicit(s, sch, name) ==
    IF IsServer(sch, name)
    THEN select(s, sch, <<"server", name>>)
    ELSE select(s, sch, <<"target", name>>)

\* C27: in every state the shell reaches and for every name that is not
\* a keyword, the bare form select <name> succeeds or fails as the
\* explicit form does and leaves the same session: select server <name>
\* when the name is a server of either catalog, select target <name>
\* otherwise; a name that is a server and also a target of the selected
\* server is selected as a server.  Every bare select the shell has run
\* left the session its explicit form would have left.
C27_BareSelect ==
    phase = "loop" =>
        /\ \A name \in Names \ Keywords :
              LET bare == select(session, schema, <<name>>)
                  explicit == Explicit(session, schema, name)
              IN  /\ bare.session = explicit.session
                  /\ (bare.err = "") = (explicit.err = "")
                  /\ (IsServer(schema, name) /\ InList(name, session.targetList)) =>
                        /\ bare.session.mode = "SERVER"
                        /\ bare.session.serverName = name
        /\ last.cmd = "select bare" =>
              /\ session = Explicit(last.prev, schema, last.name).session
              /\ (last.err = "") = (Explicit(last.prev, schema, last.name).err = "")
              /\ prompt = PromptOf(Explicit(last.prev, schema, last.name).session)

\* A bare select named a server that is also a target of the server
\* selected before, and that server is now selected.
C27_Witness ==
    /\ last.cmd = "select bare"
    /\ last.err = ""
    /\ InList(last.name, last.prev.targetList)
    /\ IsServer(schema, last.name)
    /\ session.mode = "SERVER"
    /\ session.serverName = last.name


\* C28: when the operator quits the pager while the text of a command is
\* still being written to it, the command returns as after a full
\* display: nothing is reported, the session and the prompt are those of
\* before the command, and the shell reads the next command.
C28_BrokenPipeSwallowed ==
    last.pager = "brokenpipe" =>
        /\ phase = "loop"
        /\ last.err = ""
        /\ session = last.prev
        /\ prompt = PromptOf(last.prev)
        /\ last.out # << >>

\* The pager of the jobs command was quit early on a selected target.
C28_Witness ==
    /\ last.pager = "brokenpipe"
    /\ last.cmd = "jobs"
    /\ session.mode = "TARGET"
    /\ phase = "loop"

=============================================================================
